---------------------------- MODULE Spec2Model ----------------------------
(***************************************************************************)
(* Model of scrape_bilietai_lt (src/scrape_events.py, lines 32-206): the   *)
(* two-phase listing / series crawl of bilietai.lt, its container-and-link *)
(* resolver, its record builder and the final de-duplication.              *)
(*                                                                         *)
(* Strings the code takes apart are modelled by their parts:               *)
(*   - an href or URL is a record [origin, path, frag]; origin "" is a     *)
(*     site-relative href (one that starts with "/");                      *)
(*   - a startDate is a sequence of chunks, <<date>> or                    *)
(*     <<date, "T", hh:mm, rest>>;                                         *)
(*   - the text of a node is the sequence of its tokens.                   *)
(* The position of a metadata block (a <script> tag) in the document is    *)
(* its chain of ancestors, parent first; each ancestor carries what the    *)
(* code reads from it: whether it is an <a href>, its href, the hrefs of   *)
(* the <a href> elements beneath it in document order, and its text.       *)
(* scraped_at (a wall-clock stamp, line 133) is left out of the records.   *)
(***************************************************************************)
EXTENDS Integers, Sequences, FiniteSets, TLC

VARIABLES
    pc,               \* position of the single crawl flow
    session,          \* the browser / context: "open" or "closed"
    page_num,         \* loop variable of the listing loop (line 146)
    left,             \* event objects of the current soup not yet iterated
    cur,              \* loop variables script_tag, e (lines 155, 181)
    res,              \* container, link of the last resolution (lines 156, 189)
    series_url,       \* loop variable of the series loop (line 170)
    found,            \* line 179
    rows,             \* line 136
    series_links,     \* line 137
    series_fallback,  \* line 138
    seen_event_pages, \* line 139
    todo,             \* links of series_links the series loop has not reached
    gotos,            \* history: the navigations made, in order, with outcome
    result,           \* the returned table, or the error raised
    world             \* the site, where a specification fixes what its pages
                      \* render to, and the tables of the runs made on it

vars == <<pc, session, page_num, left, cur, res, series_url, found, rows,
          series_links, series_fallback, seen_event_pages, todo, gotos, result,
          world>>

----------------------------------------------------------------------------
(* Bounds of the model *)

PagesToCheck == 2

MaxBlocks == 2

MaxDepth == 11

MaxLinks == 2

(* Program constants *)

AscentBound == 10

----------------------------------------------------------------------------
(* URLs, hrefs *)

SiteRoot == "https://www.bilietai.lt"

SiteOrigins == {"https://www.bilietai.lt", "http://bilietai.lt"}

DetailPaths == {"/eng/tickets/a-1", "/eng/tickets/b-2"}

NoLink == [origin |-> "", path |-> "", frag |-> ""]

Href(o, p, f) == [origin |-> o, path |-> p, frag |-> f]

\* event_page_re.search(href), line 46: a locale segment, "tickets", a slug
\* ending in a numeric id.
event_page_re(href) == href.path \in DetailPaths

\* abs_event_page_re.search(href), line 47.
abs_event_page_re(href) == href.origin \in SiteOrigins /\ href.path \in DetailPaths

\* href.startswith("/")
StartsWithSlash(href) == href.origin = "" /\ href.path # ""

\* urljoin(site_root, href) for a site-relative href: the fragment is kept.
abs_url(href) == [href EXCEPT !.origin = SiteRoot]

\* href.split("#")[0]
StripFragment(href) == [href EXCEPT !.frag = ""]

\* Lines 84-87 and 98-101: the link an href stands for, NoLink when the href
\* is not detail-shaped.
DetailLink(href) ==
    IF StartsWithSlash(href) /\ event_page_re(href) THEN abs_url(href)
    ELSE IF abs_event_page_re(href) THEN StripFragment(href)
    ELSE NoLink

----------------------------------------------------------------------------
(* Sequences *)

RECURSIVE SelectLinks(_)
\* Lines 95-101: the detail links of a list of hrefs, in order.
SelectLinks(hrefs) ==
    IF hrefs = <<>> THEN <<>>
    ELSE LET l == DetailLink(Head(hrefs))
         IN  (IF l = NoLink THEN <<>> ELSE <<l>>) \o SelectLinks(Tail(hrefs))

Range(s) == {s[i] : i \in 1..Len(s)}

RECURSIVE FromKeys(_)
\* list(dict.fromkeys(links)), line 103: first occurrences, in order.
FromKeys(links) ==
    IF links = <<>> THEN <<>>
    ELSE LET front == FromKeys(SubSeq(links, 1, Len(links) - 1))
             x == links[Len(links)]
         IN  IF x \in Range(front) THEN front ELSE Append(front, x)

Min(a, b) == IF a <= b THEN a ELSE b

----------------------------------------------------------------------------
(* find_container_and_event_link, lines 80-107 *)

\* script_tag.find_parent("a", href=True): the nearest ancestor that is an
\* <a href>, at any height; 0 when there is none.
find_parent_a(dom) ==
    LET as == {i \in 1..Len(dom) : dom[i].is_a}
    IN  IF as = {} THEN 0 ELSE CHOOSE i \in as : \A j \in as : i <= j

\* Lines 95-103 for the ancestor at height i.
uniq(dom, i) == FromKeys(SelectLinks(dom[i].links))

\* AscentHits without the bound of line 90.
AscentHitsUnbounded(dom) ==
    {i \in 1..Len(dom) : Len(uniq(dom, i)) = 1}

\* Lines 89-105: the heights the ascent reaches before it returns or ends.
AscentHits(dom) ==
    {i \in 1..Min(AscentBound, Len(dom)) : Len(uniq(dom, i)) = 1}

Ascent(dom) ==
    LET hits == AscentHits(dom)
    IN  IF hits = {} THEN [container |-> 0, link |-> NoLink]
        ELSE LET i == CHOOSE i \in hits : \A j \in hits : i <= j
             IN  [container |-> i, link |-> uniq(dom, i)[1]]

find_container_and_event_link(dom) ==
    LET a == find_parent_a(dom)
    IN  IF a # 0 /\ DetailLink(dom[a].href) # NoLink
        THEN [container |-> a, link |-> DetailLink(dom[a].href)]
        ELSE Ascent(dom)

----------------------------------------------------------------------------
(* row_from_event, lines 109-134 *)

Times == {"18:30", "19:00"}

Marker == "Different venues"

\* split_dt, lines 53-59.  The chunk after "T" stands for the first five
\* characters of the time part; a fourth chunk (seconds, zone) is cut off.
split_dt(s) ==
    IF s = <<>> THEN <<"", "">>
    ELSE IF \E i \in 1..Len(s) : s[i] = "T"
         THEN LET i == CHOOSE i \in 1..Len(s) :
                           s[i] = "T" /\ \A j \in 1..(i - 1) : s[j] # "T"
              IN  << (IF i > 1 THEN s[1] ELSE ""),
                     (IF i < Len(s) THEN s[i + 1] ELSE "") >>
         ELSE <<s[1], "">>

RECURSIVE first_time_from_text(_)
\* Lines 61-63: the first hour:minute token of the text, "" when none.
first_time_from_text(text) ==
    IF text = <<>> THEN ""
    ELSE IF Head(text) \in Times THEN Head(text)
    ELSE first_time_from_text(Tail(text))

\* container.get_text(...) if container else "" (lines 113, 163)
ContainerText(dom, container) ==
    IF container = 0 THEN <<>> ELSE dom[container].text

row_from_event(e, dom, container, event_page_link) ==
    LET dt == split_dt(e.startDate)
        container_text == ContainerText(dom, container)
        start_time == IF dt[2] = "" THEN first_time_from_text(container_text)
                      ELSE dt[2]
        ticket_link == IF StartsWithSlash(e.offers_url) THEN abs_url(e.offers_url)
                       ELSE e.offers_url
    IN  [title |-> e.name,
         location |-> e.location,
         city |-> e.city,
         start_date |-> dt[1],
         start_time |-> start_time,
         event_link |-> event_page_link,
         ticket_link |-> ticket_link]

----------------------------------------------------------------------------
(* The decisions of the two loops *)

\* SkipListed without the seen-link guard.
SkipListedNoSeen(link, seen) == link = NoLink

\* Line 157: the page-level guard.
SkipListed(link, seen) == link = NoLink \/ link \in seen

\* is_series without the empty-venue branch.
is_series_marker_only(r, container_text) == Marker \in Range(container_text)

\* Line 163.
is_series(r, container_text) ==
    r.location = "" \/ Marker \in Range(container_text)

\* Qualifies without the venue-name test of lines 184-185.
QualifiesTicketOnly(e) == e.offers_url # NoLink

\* Lines 184-187: the event object has a venue name and a ticket URL.
Qualifies(e) == e.location # "" /\ e.offers_url # NoLink

\* SkipExpanded without the comparison with the series URL.
SkipExpandedNoSelf(link, url) == link = NoLink

\* Line 190.
SkipExpanded(link, url) == link = NoLink \/ link = url

----------------------------------------------------------------------------
(* pd.DataFrame(rows).drop_duplicates(subset=...).reset_index(drop=True),   *)
(* lines 202-206                                                           *)

Subset == {"title", "start_date", "start_time", "location"}

DataFrame(rs) ==
    [columns |-> UNION {DOMAIN rs[i] : i \in 1..Len(rs)}, rows |-> rs]

\* KeyOf with event_link added to the subset.
KeyOfWithLink(r) == <<r.title, r.start_date, r.start_time, r.location, r.event_link>>

KeyOf(r) == <<r.title, r.start_date, r.start_time, r.location>>

RECURSIVE KeepLast(_)
\* keep="last": a row stays unless a later row has its key.
KeepLast(rs) ==
    IF rs = <<>> THEN <<>>
    ELSE LET back == Tail(rs)
             x == Head(rs)
         IN  IF \E i \in 1..Len(back) : KeyOf(back[i]) = KeyOf(x)
             THEN KeepLast(back)
             ELSE <<x>> \o KeepLast(back)

RECURSIVE KeepFirst(_)
\* keep="first": a row stays unless an earlier row has its key.
KeepFirst(rs) ==
    IF rs = <<>> THEN <<>>
    ELSE LET front == SubSeq(rs, 1, Len(rs) - 1)
             x == rs[Len(rs)]
         IN  IF \E i \in 1..Len(front) : KeyOf(front[i]) = KeyOf(x)
             THEN KeepFirst(front)
             ELSE Append(KeepFirst(front), x)

\* An empty frame is returned as it is; otherwise a subset column the frame
\* does not have raises KeyError.
drop_duplicates(df) ==
    IF df.rows = <<>> THEN [error |-> "", table |-> df.rows]
    ELSE IF ~(Subset \subseteq df.columns) THEN [error |-> "KeyError", table |-> <<>>]
    ELSE [error |-> "", table |-> KeepFirst(df.rows)]

----------------------------------------------------------------------------
(* The documents the crawl is given *)

Node(is_a, href, links, text) ==
    [is_a |-> is_a, href |-> href, links |-> links, text |-> text]

RelA == Href("", "/eng/tickets/a-1", "")

RelB == Href("", "/eng/tickets/b-2", "")

AbsB == Href("https://www.bilietai.lt", "/eng/tickets/b-2", "#top")

About == Href("", "/eng/about", "")

\* <div><a href=RelB/><a href=RelA> Jazz Doors 18:30 <script/> </a></div>
DomAnchorA ==
    << Node(TRUE, RelA, <<>>, <<"Jazz", "Doors", "18:30">>),
       Node(FALSE, NoLink, <<RelB, RelA>>, <<"Rock", "Jazz", "Doors", "18:30">>) >>

\* <li><a href=About/><a href=AbsB/><div><script/></div><a href=RelB/></li>
DomCardB ==
    << Node(FALSE, NoLink, <<>>, <<>>),
       Node(FALSE, NoLink, <<About, AbsB, RelB>>, <<"Tour", "19:00">>) >>

\* <div> Different venues <a href=RelA/> <script/> </div>
DomVenuesA ==
    << Node(FALSE, NoLink, <<RelA>>, <<Marker, "18:30">>) >>

\* <body><a href=RelA/><a href=RelB/><script/></body>
DomAmbiguous ==
    << Node(FALSE, NoLink, <<RelA, RelB>>, <<"Jazz", "Rock">>) >>

Doms == {DomAnchorA, DomCardB, DomVenuesA, DomAmbiguous}

Event(name, startDate, location, city, offers_url) ==
    [name |-> name, startDate |-> startDate, location |-> location,
     city |-> city, offers_url |-> offers_url]

EvJazz ==
    Event("Jazz", <<"2025-05-01", "T", "19:00", ":00">>, "Arena", "Vilnius",
          Href("", "/buy/1", ""))

EvSoldOut ==
    Event("Jazz", <<"2025-05-01", "T", "19:00", ":00">>, "Arena", "Vilnius", NoLink)

EvTour ==
    Event("Tour", <<"2025-05-01">>, "", "", Href("https://www.bilietai.lt", "/buy/2", ""))

Events == {EvJazz, EvSoldOut, EvTour}

\* What iter_event_jsonld (lines 65-78) yields: a script tag, by its place in
\* the document, and an event object.
Blocks == [e : Events, dom : Doms]

NoBlock == [e |-> Event("", <<>>, "", "", NoLink), dom |-> <<>>]

NoRes == [container |-> 0, link |-> NoLink]

\* One navigation of the page: page.goto(...) on a listing page (kind
\* "listing", by its number) or on a series page (kind "series", by its URL).
Goto(kind, n, url, ok) == [kind |-> kind, page |-> n, url |-> url, ok |-> ok]

\* A page as the renderer gives it: whether page.goto returns, whether
\* page.content() then returns, and the event objects iter_event_jsonld
\* yields from that content.
Page(ok, content, blocks) == [ok |-> ok, content |-> content, blocks |-> blocks]

\* No site fixed: every navigation may fail or succeed, with any content.
NoWorld == [listing |-> <<>>, series |-> <<>>, close |-> "", tables |-> <<>>]

----------------------------------------------------------------------------
(* The crawl, lines 136-206 *)

Init ==
    /\ pc = "listing"
    /\ session = "open"
    /\ page_num = 1
    /\ left = 0
    /\ cur = NoBlock
    /\ res = NoRes
    /\ series_url = NoLink
    /\ found = FALSE
    /\ rows = <<>>
    /\ series_links = {}
    /\ series_fallback = <<>>
    /\ seen_event_pages = {}
    /\ todo = {}
    /\ gotos = <<>>
    /\ result = [error |-> "", table |-> <<>>]
    /\ world = NoWorld

\* Lines 148-151: page.goto raises, the page is skipped.
GotoListingFail ==
    /\ pc = "listing" /\ session = "open"
    /\ page_num <= PagesToCheck
    /\ gotos' = Append(gotos, Goto("listing", page_num, NoLink, FALSE))
    /\ page_num' = page_num + 1
    /\ UNCHANGED <<pc, session, left, cur, res, series_url, found, rows,
                   series_links, series_fallback, seen_event_pages, todo, result>>
    /\ UNCHANGED world

\* Lines 148-149: page.goto returns.
GotoListingOk ==
    /\ pc = "listing" /\ session = "open"
    /\ page_num <= PagesToCheck
    /\ gotos' = Append(gotos, Goto("listing", page_num, NoLink, TRUE))
    /\ pc' = "listing_content"
    /\ UNCHANGED <<session, page_num, left, cur, res, series_url, found, rows,
                   series_links, series_fallback, seen_event_pages, todo, result>>
    /\ UNCHANGED world

\* Lines 153-155: page.content() returns; the soup holds n event objects.
ContentListing ==
    /\ pc = "listing_content"
    /\ \E n \in 0..MaxBlocks : left' = n
    /\ pc' = "listing_soup"
    /\ UNCHANGED <<session, page_num, cur, res, series_url, found, rows,
                   series_links, series_fallback, seen_event_pages, todo, gotos,
                   result>>
    /\ UNCHANGED world

\* Line 153: page.content() raises, outside the try of lines 148-151; the
\* exception leaves the loop and the function.
ContentListingRaises ==
    /\ pc = "listing_content"
    /\ result' = [error |-> "Error", table |-> <<>>]
    /\ pc' = "unwinding"
    /\ UNCHANGED <<session, page_num, left, cur, res, series_url, found, rows,
                   series_links, series_fallback, seen_event_pages, todo, gotos>>
    /\ UNCHANGED world

\* ListingBlock without line 166: a series link is queued, its record is
\* not cached.
ListingBlockNoCache ==
    /\ pc = "listing_soup" /\ left > 0
    /\ \E b \in Blocks :
         LET cl == find_container_and_event_link(b.dom)
             r == row_from_event(b.e, b.dom, cl.container, cl.link)
         IN  /\ cur' = b
             /\ res' = cl
             /\ IF SkipListed(cl.link, seen_event_pages)
                THEN UNCHANGED <<seen_event_pages, series_links, series_fallback, rows>>
                ELSE /\ seen_event_pages' = seen_event_pages \cup {cl.link}
                     /\ IF is_series(r, ContainerText(b.dom, cl.container))
                        THEN /\ series_links' = series_links \cup {cl.link}
                             /\ UNCHANGED <<rows, series_fallback>>
                        ELSE /\ rows' = Append(rows, r)
                             /\ UNCHANGED <<series_links, series_fallback>>
    /\ left' = left - 1
    /\ UNCHANGED <<pc, session, page_num, series_url, found, todo, gotos, result>>
    /\ UNCHANGED world

\* Lines 155-168: one iteration of the inner loop of phase 1.
ListingBlock ==
    /\ pc = "listing_soup" /\ left > 0
    /\ \E b \in Blocks :
         LET cl == find_container_and_event_link(b.dom)
             r == row_from_event(b.e, b.dom, cl.container, cl.link)
         IN  /\ cur' = b
             /\ res' = cl
             /\ IF SkipListed(cl.link, seen_event_pages)
                THEN UNCHANGED <<seen_event_pages, series_links, series_fallback, rows>>
                ELSE /\ seen_event_pages' = seen_event_pages \cup {cl.link}
                     /\ IF is_series(r, ContainerText(b.dom, cl.container))
                        THEN /\ series_links' = series_links \cup {cl.link}
                             /\ series_fallback' =
                                    [k \in DOMAIN series_fallback \cup {cl.link} |->
                                        IF k = cl.link THEN r ELSE series_fallback[k]]
                             /\ UNCHANGED rows
                        ELSE /\ rows' = Append(rows, r)
                             /\ UNCHANGED <<series_links, series_fallback>>
    /\ left' = left - 1
    /\ UNCHANGED <<pc, session, page_num, series_url, found, todo, gotos, result>>
    /\ UNCHANGED world

\* The inner loop of phase 1 is exhausted: the next listing page.
ListingSoupEnd ==
    /\ pc = "listing_soup" /\ left = 0
    /\ page_num' = page_num + 1
    /\ pc' = "listing"
    /\ UNCHANGED <<session, left, cur, res, series_url, found, rows, series_links,
                   series_fallback, seen_event_pages, todo, gotos, result>>
    /\ UNCHANGED world

\* Line 170: the listing loop is exhausted, the series loop starts iterating
\* the set series_links.
StartSeries ==
    /\ pc = "listing" /\ page_num > PagesToCheck
    /\ todo' = series_links
    /\ pc' = "series"
    /\ UNCHANGED <<session, page_num, left, cur, res, series_url, found, rows,
                   series_links, series_fallback, seen_event_pages, gotos, result>>
    /\ UNCHANGED world

\* Lines 170-176: the series page fails to render.
GotoSeriesFail ==
    /\ pc = "series" /\ session = "open"
    /\ \E url \in todo :
         /\ series_url' = url
         /\ todo' = todo \ {url}
         /\ gotos' = Append(gotos, Goto("series", 0, url, FALSE))
         /\ rows' = IF url \in DOMAIN series_fallback
                    THEN Append(rows, series_fallback[url]) ELSE rows
    /\ UNCHANGED <<pc, session, page_num, left, cur, res, found, series_links,
                   series_fallback, seen_event_pages, result>>
    /\ UNCHANGED world

\* Lines 170-172: page.goto returns for the next link of the set.
GotoSeriesOk ==
    /\ pc = "series" /\ session = "open"
    /\ \E url \in todo :
         /\ series_url' = url
         /\ todo' = todo \ {url}
         /\ gotos' = Append(gotos, Goto("series", 0, url, TRUE))
    /\ pc' = "series_content"
    /\ UNCHANGED <<session, page_num, left, cur, res, found, rows, series_links,
                   series_fallback, seen_event_pages, result>>
    /\ UNCHANGED world

\* Lines 178-181: page.content() returns; the soup holds n event objects.
ContentSeries ==
    /\ pc = "series_content"
    /\ \E n \in 0..MaxBlocks : left' = n
    /\ found' = FALSE
    /\ pc' = "series_soup"
    /\ UNCHANGED <<session, page_num, cur, res, series_url, rows, series_links,
                   series_fallback, seen_event_pages, todo, gotos, result>>
    /\ UNCHANGED world

\* Line 178: page.content() raises, outside the try of lines 171-176; the
\* exception leaves the loop and the function, no fallback is appended.
ContentSeriesRaises ==
    /\ pc = "series_content"
    /\ result' = [error |-> "Error", table |-> <<>>]
    /\ pc' = "unwinding"
    /\ UNCHANGED <<session, page_num, left, cur, res, series_url, found, rows,
                   series_links, series_fallback, seen_event_pages, todo, gotos>>
    /\ UNCHANGED world

\* Lines 181-194: one iteration of the inner loop of phase 2.
SeriesBlock ==
    /\ pc = "series_soup" /\ left > 0
    /\ \E b \in Blocks :
         /\ cur' = b
         /\ IF ~Qualifies(b.e)
            THEN UNCHANGED <<res, rows, found>>
            ELSE LET cl == find_container_and_event_link(b.dom)
                 IN  /\ res' = cl
                     /\ IF SkipExpanded(cl.link, series_url)
                        THEN UNCHANGED <<rows, found>>
                        ELSE /\ rows' = Append(rows,
                                    row_from_event(b.e, b.dom, cl.container, cl.link))
                             /\ found' = TRUE
    /\ left' = left - 1
    /\ UNCHANGED <<pc, session, page_num, series_url, series_links,
                   series_fallback, seen_event_pages, todo, gotos, result>>
    /\ UNCHANGED world

\* SeriesSoupEnd without the test of found.
SeriesSoupEndAlways ==
    /\ pc = "series_soup" /\ left = 0
    /\ rows' = IF series_url \in DOMAIN series_fallback
               THEN Append(rows, series_fallback[series_url]) ELSE rows
    /\ pc' = "series"
    /\ UNCHANGED <<session, page_num, left, cur, res, series_url, found,
                   series_links, series_fallback, seen_event_pages, todo, gotos,
                   result>>
    /\ UNCHANGED world

\* Lines 196-197: the inner loop of phase 2 is exhausted.
SeriesSoupEnd ==
    /\ pc = "series_soup" /\ left = 0
    /\ rows' = IF ~found /\ series_url \in DOMAIN series_fallback
               THEN Append(rows, series_fallback[series_url]) ELSE rows
    /\ pc' = "series"
    /\ UNCHANGED <<session, page_num, left, cur, res, series_url, found,
                   series_links, series_fallback, seen_event_pages, todo, gotos,
                   result>>
    /\ UNCHANGED world

\* Line 199: the series loop is exhausted; context.close() returns.
CloseContext ==
    /\ pc = "series" /\ todo = {}
    /\ session = "open"
    /\ session' = "context_closed"
    /\ pc' = "closing"
    /\ UNCHANGED <<page_num, left, cur, res, series_url, found, rows, series_links,
                   series_fallback, seen_event_pages, todo, gotos, result>>
    /\ UNCHANGED world

\* Line 199: context.close() raises; line 200 is not reached.
CloseContextRaises ==
    /\ pc = "series" /\ todo = {}
    /\ session = "open"
    /\ result' = [error |-> "Error", table |-> <<>>]
    /\ pc' = "unwinding"
    /\ UNCHANGED <<session, page_num, left, cur, res, series_url, found, rows,
                   series_links, series_fallback, seen_event_pages, todo, gotos>>
    /\ UNCHANGED world

\* Line 200: browser.close() returns.
CloseBrowser ==
    /\ pc = "closing"
    /\ session' = "closed"
    /\ pc' = "exit"
    /\ UNCHANGED <<page_num, left, cur, res, series_url, found, rows, series_links,
                   series_fallback, seen_event_pages, todo, gotos, result>>
    /\ UNCHANGED world

\* Line 200: browser.close() raises.
CloseBrowserRaises ==
    /\ pc = "closing"
    /\ result' = [error |-> "Error", table |-> <<>>]
    /\ pc' = "unwinding"
    /\ UNCHANGED <<session, page_num, left, cur, res, series_url, found, rows,
                   series_links, series_fallback, seen_event_pages, todo, gotos>>
    /\ UNCHANGED world

\* Line 141: the async with block is left, at its end or by an exception,
\* and the driver is stopped; an exception goes on to the caller.
PwExit ==
    /\ pc \in {"exit", "unwinding"}
    /\ pc' = IF pc = "exit" THEN "return" ELSE "raised"
    /\ UNCHANGED <<session, page_num, left, cur, res, series_url, found, rows,
                   series_links, series_fallback, seen_event_pages, todo, gotos,
                   result>>
    /\ UNCHANGED world

\* Lines 202-206.
Return ==
    /\ pc = "return"
    /\ result' = drop_duplicates(DataFrame(rows))
    /\ pc' = IF result'.error = "" THEN "done" ELSE "raised"
    /\ UNCHANGED <<session, page_num, left, cur, res, series_url, found, rows,
                   series_links, series_fallback, seen_event_pages, todo, gotos>>
    /\ UNCHANGED world

Next ==
    \/ GotoListingFail
    \/ GotoListingOk
    \/ ContentListing
    \/ ContentListingRaises
    \/ ListingBlock
    \/ ListingSoupEnd
    \/ StartSeries
    \/ GotoSeriesFail
    \/ GotoSeriesOk
    \/ ContentSeries
    \/ ContentSeriesRaises
    \/ SeriesBlock
    \/ SeriesSoupEnd
    \/ CloseContext
    \/ CloseContextRaises
    \/ CloseBrowser
    \/ CloseBrowserRaises
    \/ PwExit
    \/ Return

Spec == Init /\ [][Next]_vars

\* The steps of the series loop and of the close, lines 170-200.
SeriesLoop ==
    \/ GotoSeriesFail
    \/ GotoSeriesOk
    \/ ContentSeries
    \/ ContentSeriesRaises
    \/ SeriesBlock
    \/ SeriesSoupEnd
    \/ CloseContext
    \/ CloseContextRaises
    \/ CloseBrowser
    \/ CloseBrowserRaises

\* The flow is a single coroutine that runs on; every page.goto is bounded
\* by its timeout (lines 149, 172), so a step of the series loop that can be
\* taken is taken.
FairSpec == Spec /\ WF_vars(SeriesLoop)

----------------------------------------------------------------------------
(* find_container_and_event_link on its own: a document is grown around a  *)
(* script tag, one ancestor at a time, and the resolver is applied to it.  *)

HrefPool ==
    {RelA, Href("https://www.bilietai.lt", "/eng/tickets/a-1", "#top"), RelB, About}

\* The <a href> elements of the document around the script tag.
LinkCount(dom) ==
    IF dom = <<>> THEN 0
    ELSE Len(dom[Len(dom)].links) + (IF dom[Len(dom)].is_a THEN 1 ELSE 0)

\* The hrefs find_all("a", href=True) gives for the parent of the top node of
\* dom, whose children are the <a href> elements sibs and then that top node.
LinksBeneathParent(dom, sibs) ==
    IF dom = <<>> THEN sibs
    ELSE sibs \o (IF dom[Len(dom)].is_a THEN <<dom[Len(dom)].href>> ELSE <<>>)
              \o dom[Len(dom)].links

InitResolver ==
    /\ pc = "dom"
    /\ session = "open"
    /\ page_num = 1
    /\ left = 0
    /\ cur = NoBlock
    /\ res = NoRes
    /\ series_url = NoLink
    /\ found = FALSE
    /\ rows = <<>>
    /\ series_links = {}
    /\ series_fallback = <<>>
    /\ seen_event_pages = {}
    /\ todo = {}
    /\ gotos = <<>>
    /\ result = [error |-> "", table |-> <<>>]
    /\ world = NoWorld

AddAncestor ==
    /\ pc = "dom"
    /\ Len(cur.dom) < MaxDepth
    /\ \E is_a \in BOOLEAN, href \in HrefPool, sibs \in {<<>>} \cup {<<h>> : h \in HrefPool} :
         /\ ~is_a => href = About
         /\ LinkCount(cur.dom) + Len(sibs) + (IF is_a THEN 1 ELSE 0) <= MaxLinks
         /\ cur' = [cur EXCEPT !.dom =
                       Append(cur.dom,
                              Node(is_a, IF is_a THEN href ELSE NoLink,
                                   LinksBeneathParent(cur.dom, sibs), <<>>))]
    /\ UNCHANGED <<pc, session, page_num, left, res, series_url, found, rows,
                   series_links, series_fallback, seen_event_pages, todo, gotos,
                   result>>
    /\ UNCHANGED world

Resolve ==
    /\ pc = "dom"
    /\ res' = find_container_and_event_link(cur.dom)
    /\ pc' = "resolved"
    /\ UNCHANGED <<session, page_num, left, cur, series_url, found, rows,
                   series_links, series_fallback, seen_event_pages, todo, gotos,
                   result>>
    /\ UNCHANGED world

NextResolver ==
    \/ AddAncestor
    \/ Resolve

SpecResolver == InitResolver /\ [][NextResolver]_vars

----------------------------------------------------------------------------
(* Two runs over one site: the pages are fixed beforehand, every navigation *)
(* of either run gets the outcome and the content the site has for it, and *)
(* the table of the first run is kept to be compared with the second.      *)

UrlA == abs_url(RelA)

UrlB == abs_url(RelB)

Block(e, dom) == [e |-> e, dom |-> dom]

\* The first listing page: two series (a-1 by the marker, b-2 by its empty
\* venue), or a direct event a-1 and the series b-2, or a failed goto, or a
\* goto that returns and a content() that raises.
FirstPages ==
    { Page(TRUE, TRUE, <<Block(EvJazz, DomVenuesA), Block(EvTour, DomCardB)>>),
      Page(TRUE, TRUE, <<Block(EvJazz, DomAnchorA), Block(EvTour, DomCardB)>>),
      Page(FALSE, FALSE, <<>>),
      Page(TRUE, FALSE, <<>>) }

\* The listing pages after the first.
LaterPages ==
    { Page(FALSE, FALSE, <<>>),
      Page(TRUE, TRUE, <<Block(EvJazz, DomCardB)>>) }

\* A series page: a failed goto, a content() that raises, no event object,
\* an occurrence linked to b-2, an occurrence linked to a-1, or an object
\* without ticket URL and an occurrence linked to a-1.
SeriesPages ==
    { Page(FALSE, FALSE, <<>>),
      Page(TRUE, FALSE, <<>>),
      Page(TRUE, TRUE, <<>>),
      Page(TRUE, TRUE, <<Block(EvJazz, DomCardB)>>),
      Page(TRUE, TRUE, <<Block(EvJazz, DomAnchorA)>>),
      Page(TRUE, TRUE, <<Block(EvSoldOut, DomCardB), Block(EvJazz, DomAnchorA)>>) }

\* What the two close calls of lines 199-200 do: both return, context.close()
\* raises, or browser.close() raises.
CloseOutcomes == {"ok", "context", "browser"}

Worlds ==
    { [listing |-> [n \in 1..PagesToCheck |-> IF n = 1 THEN p ELSE q],
       series  |-> [l \in {UrlA, UrlB} |-> IF l = UrlA THEN sa ELSE sb],
       close   |-> c,
       tables  |-> <<>>] :
        p \in FirstPages, q \in LaterPages, sa \in SeriesPages, sb \in SeriesPages,
        c \in CloseOutcomes }

InitOrder ==
    /\ pc = "listing"
    /\ session = "open"
    /\ page_num = 1
    /\ left = 0
    /\ cur = NoBlock
    /\ res = NoRes
    /\ series_url = NoLink
    /\ found = FALSE
    /\ rows = <<>>
    /\ series_links = {}
    /\ series_fallback = <<>>
    /\ seen_event_pages = {}
    /\ todo = {}
    /\ gotos = <<>>
    /\ result = [error |-> "", table |-> <<>>]
    /\ world \in Worlds

\* Lines 148-151 on a listing page the site fails to render.
OrderListingFail ==
    /\ GotoListingFail
    /\ ~world.listing[page_num].ok

\* Lines 148-149 on a listing page the site navigates to.
OrderListingOk ==
    /\ GotoListingOk
    /\ world.listing[page_num].ok

\* Lines 153-155 on a listing page whose content the site gives.
OrderContentListing ==
    /\ ContentListing
    /\ world.listing[page_num].content
    /\ left' = Len(world.listing[page_num].blocks)

\* Line 153 on a listing page whose content the site does not give.
OrderContentListingRaises ==
    /\ ContentListingRaises
    /\ ~world.listing[page_num].content

\* Lines 155-168 on the next event object of the listing page.
OrderListingBlock ==
    /\ ListingBlock
    /\ cur' = world.listing[page_num].blocks
                  [Len(world.listing[page_num].blocks) - left + 1]

\* Lines 170-176 on a series page the site fails to render; the for loop of
\* line 170 takes the links of the set in whatever order the set gives them.
OrderSeriesFail ==
    /\ GotoSeriesFail
    /\ ~world.series[series_url'].ok

\* Lines 170-172 on a series page the site navigates to.
OrderSeriesOk ==
    /\ GotoSeriesOk
    /\ world.series[series_url'].ok

\* Lines 178-181 on a series page whose content the site gives.
OrderContentSeries ==
    /\ ContentSeries
    /\ world.series[series_url].content
    /\ left' = Len(world.series[series_url].blocks)

\* Line 178 on a series page whose content the site does not give.
OrderContentSeriesRaises ==
    /\ ContentSeriesRaises
    /\ ~world.series[series_url].content

\* Lines 181-194 on the next event object of the series page.
OrderSeriesBlock ==
    /\ SeriesBlock
    /\ cur' = world.series[series_url].blocks
                  [Len(world.series[series_url].blocks) - left + 1]

\* Line 199 when context.close() returns.
OrderCloseContext ==
    /\ CloseContext
    /\ world.close # "context"

\* Line 199 when context.close() raises.
OrderCloseContextRaises ==
    /\ CloseContextRaises
    /\ world.close = "context"

\* Line 200 when browser.close() returns.
OrderCloseBrowser ==
    /\ CloseBrowser
    /\ world.close # "browser"

\* Line 200 when browser.close() raises.
OrderCloseBrowserRaises ==
    /\ CloseBrowserRaises
    /\ world.close = "browser"

\* The function has returned its table and is called again, in a new
\* process, on the same site: lines 136-144 start from nothing.
Rerun ==
    /\ pc = "done"
    /\ world.tables = <<>>
    /\ world' = [world EXCEPT !.tables = <<result.table>>]
    /\ pc' = "listing"
    /\ session' = "open"
    /\ page_num' = 1
    /\ left' = 0
    /\ cur' = NoBlock
    /\ res' = NoRes
    /\ series_url' = NoLink
    /\ found' = FALSE
    /\ rows' = <<>>
    /\ series_links' = {}
    /\ series_fallback' = <<>>
    /\ seen_event_pages' = {}
    /\ todo' = {}
    /\ gotos' = <<>>
    /\ result' = [error |-> "", table |-> <<>>]

NextOrder ==
    \/ OrderListingFail
    \/ OrderListingOk
    \/ OrderContentListing
    \/ OrderContentListingRaises
    \/ OrderListingBlock
    \/ ListingSoupEnd
    \/ StartSeries
    \/ OrderSeriesFail
    \/ OrderSeriesOk
    \/ OrderContentSeries
    \/ OrderContentSeriesRaises
    \/ OrderSeriesBlock
    \/ SeriesSoupEnd
    \/ OrderCloseContext
    \/ OrderCloseContextRaises
    \/ OrderCloseBrowser
    \/ OrderCloseBrowserRaises
    \/ PwExit
    \/ Return
    \/ Rerun

SpecOrder == InitOrder /\ [][NextOrder]_vars

----------------------------------------------------------------------------
(* Properties *)

LastGoto == gotos[Len(gotos)]

\* The navigation a step makes, when it makes one.
Navigates == Len(gotos') = Len(gotos) + 1

NewGoto == gotos'[Len(gotos')]

\* The detail links beneath the ancestor at height i, as a set.
LinkSet(dom, i) == {DetailLink(dom[i].links[k]) : k \in 1..Len(dom[i].links)} \ {NoLink}

(* C1: in the returned table no two records share the same                 *)
(* (title, start_date, start_time, location).                              *)
C1_UniqueKeys ==
    pc = "done" =>
        \A i, j \in 1..Len(result.table) :
            ( /\ result.table[i].title = result.table[j].title
              /\ result.table[i].start_date = result.table[j].start_date
              /\ result.table[i].start_time = result.table[j].start_time
              /\ result.table[i].location = result.table[j].location ) => i = j

\* A run whose accumulated rows held a repeated key and two distinct keys.
C1_Witness ==
    /\ pc = "done"
    /\ Len(result.table) >= 2
    /\ Len(result.table) < Len(rows)

\* A step in which the render of a listing page fails: page.goto raises, or
\* page.goto returns and page.content() raises.
ListingRenderFails ==
    \/ Navigates /\ NewGoto.kind = "listing" /\ ~NewGoto.ok
    \/ pc = "listing_content" /\ pc' # "listing_soup"

\* The same for a series page.
SeriesRenderFails ==
    \/ Navigates /\ NewGoto.kind = "series" /\ ~NewGoto.ok
    \/ pc = "series_content" /\ pc' # "series_soup"

(* C2: whatever renders fail, the run never raises: it is never in the     *)
(* error state, and until it has returned a table it can take a step.      *)
C2_NoFatalError ==
    /\ pc # "raised"
    /\ pc = "done" => result.error = ""
    /\ pc # "done" => ENABLED Next

(* C3: a step in which the render of a series page fails appends exactly   *)
(* one record, the fallback cached for that link in phase 1, attempts no   *)
(* extraction and leaves the flow at the head of the series loop.          *)
C3_FailedSeriesEmitsFallback ==
    [][ SeriesRenderFails =>
          /\ series_url' \in DOMAIN series_fallback
          /\ series_fallback[series_url'].event_link = series_url'
          /\ rows' = Append(rows, series_fallback[series_url'])
          /\ UNCHANGED <<cur, res, left, found, series_fallback>>
          /\ pc' = "series"
          /\ series_url' \notin todo' ]_vars

(* C4: a record appended by an iteration over the soup of the series page  *)
(* of S never has event_link equal to S.                                   *)
C4_NoSelfLoop ==
    [][ (pc = "series_soup" /\ pc' = "series_soup" /\ rows' # rows) =>
          /\ Len(rows') = Len(rows) + 1
          /\ rows'[Len(rows')].event_link # series_url ]_vars

\* On the page of S one qualifying object was expanded and the last one,
\* which resolved to S itself, was rejected.
C4_Witness ==
    /\ pc = "series_soup"
    /\ found
    /\ Qualifies(cur.e)
    /\ res.link = series_url
    /\ rows[Len(rows)].event_link # series_url

(* C5 as stated: the result is (none, empty link) or comes from one of the *)
(* first 10 ancestors, the lowest of them whose de-duplicated link set has *)
(* exactly one member, and is that member.                                 *)
C5_AsStated ==
    pc = "resolved" =>
        \/ res = NoRes
        \/ /\ res.container \in 1..AscentBound
           /\ LinkSet(cur.dom, res.container) = {res.link}
           /\ \A j \in 1..(res.container - 1) : Cardinality(LinkSet(cur.dom, j)) # 1

\* The nearest enclosing <a href> has a detail-shaped href.
ViaEnclosingLink(dom) ==
    \E a \in 1..Len(dom) :
        /\ dom[a].is_a
        /\ \A j \in 1..(a - 1) : ~dom[j].is_a
        /\ DetailLink(dom[a].href) # NoLink

(* C5 amended: when the nearest enclosing <a href>, at any height, has a   *)
(* detail-shaped href, the result is that element and its URL, whatever    *)
(* lies beneath it.  Otherwise the result is (none, empty link), and then  *)
(* none of the first 10 ancestors has a link set of exactly one member, or *)
(* it comes from one of the first 10 ancestors, the lowest of them whose   *)
(* link set has exactly one member, and is that member.                    *)
C5_Resolver ==
    pc = "resolved" =>
        IF ViaEnclosingLink(cur.dom)
        THEN /\ res.container \in 1..Len(cur.dom)
             /\ cur.dom[res.container].is_a
             /\ \A j \in 1..(res.container - 1) : ~cur.dom[j].is_a
             /\ res.link = DetailLink(cur.dom[res.container].href)
        ELSE \/ /\ res = NoRes
                /\ \A i \in 1..Len(cur.dom) :
                       i <= AscentBound => Cardinality(LinkSet(cur.dom, i)) # 1
             \/ /\ res.container \in 1..AscentBound
                /\ res.container <= Len(cur.dom)
                /\ LinkSet(cur.dom, res.container) = {res.link}
                /\ \A j \in 1..(res.container - 1) :
                       Cardinality(LinkSet(cur.dom, j)) # 1

\* Only the ancestor just above the bound has a link set of one member, and
\* the resolver gave up.
C5_Witness ==
    /\ pc = "resolved"
    /\ Len(cur.dom) > AscentBound
    /\ Cardinality(LinkSet(cur.dom, AscentBound + 1)) = 1
    /\ ~ViaEnclosingLink(cur.dom)
    /\ res = NoRes

\* The rows whose event_link is l.
RowsOf(l) == {i \in 1..Len(rows) : rows[i].event_link = l}

\* The navigations to the series page l.
SeriesGotos(l) == {i \in 1..Len(gotos) : gotos[i].kind = "series" /\ gotos[i].url = l}

InPhase1 == pc \in {"listing", "listing_content", "listing_soup"}

InPhase2 == pc \in {"series", "series_content", "series_soup"}

(* C6 as stated: no link of seriesLinks is the event_link of a record      *)
(* emitted as a concrete event: a record appended from a listing page or   *)
(* from an iteration over a series page never carries a link of            *)
(* seriesLinks, and a link that enters seriesLinks is the link of no       *)
(* record appended before.                                                 *)
C6_AsStated ==
    [][ /\ (pc = pc' /\ pc \in {"listing_soup", "series_soup"} /\ rows' # rows) =>
               rows'[Len(rows')].event_link \notin series_links'
        /\ \A l \in series_links' \ series_links : RowsOf(l) = {} ]_vars

(* C7: in phase 1 an event object that resolves to a link already seen     *)
(* changes neither the rows, nor seriesLinks, nor the fallback cache; one  *)
(* that resolves to a new link adds it to the seen set and yields one      *)
(* built record, appended to the rows or cached as the fallback of a new   *)
(* member of seriesLinks.  So every seen link has one record in all.       *)
C7_SeenOnce ==
    /\ [](InPhase1 =>
            \A l \in seen_event_pages :
                IF l \in series_links
                THEN RowsOf(l) = {} /\ l \in DOMAIN series_fallback
                ELSE Cardinality(RowsOf(l)) = 1 /\ l \notin DOMAIN series_fallback)
    /\ [][ (pc = "listing_soup" /\ left' = left - 1 /\ res'.link # NoLink) =>
             IF res'.link \in seen_event_pages
             THEN UNCHANGED <<rows, series_links, series_fallback, seen_event_pages>>
             ELSE LET l == res'.link
                      r == row_from_event(cur'.e, cur'.dom, res'.container, l)
                  IN  /\ seen_event_pages' = seen_event_pages \cup {l}
                      /\ \/ /\ rows' = Append(rows, r)
                            /\ UNCHANGED <<series_links, series_fallback>>
                         \/ /\ UNCHANGED rows
                            /\ l \notin series_links
                            /\ series_links' = series_links \cup {l}
                            /\ DOMAIN series_fallback' = DOMAIN series_fallback \cup {l}
                            /\ series_fallback'[l] = r
                            /\ \A k \in DOMAIN series_fallback :
                                   series_fallback'[k] = series_fallback[k] ]_vars

\* On the second listing page an event object resolved to a link seen before
\* and left no record of its own.
C7_Witness ==
    /\ pc = "listing_soup"
    /\ page_num = 2
    /\ left < MaxBlocks
    /\ res.link \in seen_event_pages
    /\ LET r == row_from_event(cur.e, cur.dom, res.container, res.link)
       IN  /\ \A i \in 1..Len(rows) : rows[i] # r
           /\ res.link \in DOMAIN series_fallback => series_fallback[res.link] # r

(* C8: in phase 1 a newly seen record goes to the series-pending set, and  *)
(* not to the rows, exactly when its venue name is empty or the text of    *)
(* its container holds the marker phrase; otherwise it is appended to the  *)
(* rows and its link stays out of seriesLinks.  No row of phase 1 has an   *)
(* empty location.                                                         *)
C8_Routing ==
    /\ [](InPhase1 => \A i \in 1..Len(rows) : rows[i].location # "")
    /\ [][ ( /\ pc = "listing_soup" /\ left' = left - 1
             /\ res'.link # NoLink /\ res'.link \notin seen_event_pages ) =>
             LET l == res'.link
                 r == row_from_event(cur'.e, cur'.dom, res'.container, l)
                 text == cur'.dom[res'.container].text
             IN  IF cur'.e.location = "" \/ (\E k \in 1..Len(text) : text[k] = Marker)
                 THEN /\ l \in series_links'
                      /\ l \in DOMAIN series_fallback' /\ series_fallback'[l] = r
                      /\ rows' = rows
                 ELSE /\ rows' = Append(rows, r)
                      /\ l \notin series_links'
                      /\ UNCHANGED <<series_links, series_fallback>> ]_vars

\* A record with a venue name was routed to the series-pending set by the
\* marker phrase alone.
C8_Witness ==
    /\ pc = "listing_soup"
    /\ cur.e.location # ""
    /\ res.link \in series_links
    /\ series_fallback[res.link] = row_from_event(cur.e, cur.dom, res.container, res.link)
    /\ rows # <<>>

\* Phase 2 is over: the series loop was left at its end or by an exception.
Phase2Over ==
    \/ pc \in {"closing", "exit", "return", "done"}
    \/ pc \in {"unwinding", "raised"} /\ page_num > PagesToCheck

(* C9: phase 2 ends, having rendered each link of seriesLinks exactly      *)
(* once: during phase 2 seriesLinks does not change and the pending links  *)
(* only shrink, a link is pending exactly when it has not been rendered,   *)
(* and at the end the series renders are as many as the links pending at   *)
(* the end of phase 1.                                                     *)
C9_Phase2Terminates ==
    /\ [][InPhase2 => (series_links' = series_links /\ todo' \subseteq todo)]_vars
    /\ [](InPhase2 =>
            \A l \in series_links :
                /\ Cardinality(SeriesGotos(l)) <= 1
                /\ l \in todo <=> SeriesGotos(l) = {})
    /\ [](Phase2Over =>
            /\ \A l \in series_links : Cardinality(SeriesGotos(l)) = 1
            /\ Cardinality({i \in 1..Len(gotos) : gotos[i].kind = "series"})
                   = Cardinality(series_links))
    /\ (pc = "series" ~> Phase2Over)

(* C10: a step in which the render of a listing page fails changes neither *)
(* the rows, nor the seen set, nor seriesLinks, nor the fallback cache,    *)
(* and moves to the next page number; from the head of the listing loop    *)
(* the next page, or after the last one phase 2, can always be taken up.   *)
C10_FailedListingPage ==
    /\ [][ ListingRenderFails =>
             /\ UNCHANGED <<rows, seen_event_pages, series_links, series_fallback>>
             /\ page_num' = page_num + 1
             /\ pc' = "listing" ]_vars
    /\ [](pc = "listing" =>
            IF page_num <= PagesToCheck THEN ENABLED GotoListingOk
            ELSE ENABLED StartSeries)

\* rows' is rows, or rows with one record appended.
AppendsAtMostOne ==
    \/ rows' = rows
    \/ /\ Len(rows') = Len(rows) + 1
       /\ SubSeq(rows', 1, Len(rows)) = rows

\* Two records with the same dedup key.
SameKey(r1, r2) ==
    /\ r1.title = r2.title
    /\ r1.start_date = r2.start_date
    /\ r1.start_time = r2.start_time
    /\ r1.location = r2.location

\* The rows that are the first of their key, in insertion order.
Firsts == {i \in 1..Len(rows) : \A j \in 1..(i - 1) : ~SameKey(rows[j], rows[i])}

\* The links phase 1 sent to the rows: one direct row each.
DirectLinks == seen_event_pages \ series_links

(* C11: a series page that renders starts with nothing found; found is set *)
(* exactly when an iteration over its soup appends a record; and when the  *)
(* soup is exhausted the cached fallback is appended, once, if nothing was *)
(* appended from the page, and nothing is appended otherwise.              *)
C11_FallbackIffNothingExpanded ==
    [][ /\ (pc = "series_content" /\ pc' = "series_soup") => (~found' /\ rows' = rows)
        /\ (pc = "series_soup" /\ pc' = "series_soup") =>
               /\ AppendsAtMostOne
               /\ found' <=> (found \/ rows' # rows)
        /\ (pc = "series_soup" /\ pc' = "series") =>
               IF found THEN rows' = rows
               ELSE /\ series_url \in DOMAIN series_fallback
                    /\ rows' = Append(rows, series_fallback[series_url]) ]_vars

\* A series page rendered, its last qualifying object resolved to the series
\* URL itself or to nothing, nothing was expanded and the fallback was appended.
C11_Witness ==
    /\ pc = "series"
    /\ gotos # <<>>
    /\ LastGoto.kind = "series" /\ LastGoto.ok /\ LastGoto.url = series_url
    /\ ~found
    /\ Qualifies(cur.e)
    /\ res.link \in {series_url, NoLink}
    /\ rows # <<>>
    /\ rows[Len(rows)] = series_fallback[series_url]

(* C12: the rows are the direct rows of phase 1 followed by the rows of    *)
(* phase 2, and the returned table is the rows that are the first of their *)
(* key, in the order of the rows; so for the key of a direct row the       *)
(* surviving record is a direct row.                                       *)
C12_KeepFirstInOrder ==
    /\ [](InPhase1 => Len(rows) = Cardinality(DirectLinks))
    /\ [][~InPhase1 => ( /\ UNCHANGED <<seen_event_pages, series_links>>
                         /\ AppendsAtMostOne )]_vars
    /\ [](pc = "done" =>
            /\ Len(result.table) = Cardinality(Firsts)
            /\ \A k \in 1..Len(result.table) :
                   \E i \in Firsts :
                       /\ result.table[k] = rows[i]
                       /\ Cardinality({j \in Firsts : j < i}) = k - 1
            /\ \A i \in 1..Cardinality(DirectLinks) :
                   \E m \in 1..Cardinality(DirectLinks), k \in 1..Len(result.table) :
                       /\ SameKey(rows[m], rows[i])
                       /\ result.table[k] = rows[m])

\* A direct row and a later row of phase 2 had the same key: the direct row
\* is in the table, the later one is not.
C12_Witness ==
    /\ pc = "done"
    /\ \E i \in 1..Cardinality(DirectLinks), j \in 1..Len(rows) :
           /\ j > Cardinality(DirectLinks)
           /\ SameKey(rows[i], rows[j])
           /\ rows[i] # rows[j]
           /\ \E k \in 1..Len(result.table) : result.table[k] = rows[i]
           /\ \A k \in 1..Len(result.table) : result.table[k] # rows[j]

(* C13: a record appended by an iteration over the soup of a series page   *)
(* is built from an event object with a venue name and a ticket URL, and   *)
(* has a location and a ticket link; every row with an empty location is   *)
(* the cached fallback of its link, a link of seriesLinks.                 *)
C13_ExpandedHaveVenueAndTicket ==
    /\ [][ (pc = "series_soup" /\ pc' = "series_soup" /\ rows' # rows) =>
             /\ cur'.e.location # ""
             /\ cur'.e.offers_url # NoLink
             /\ rows'[Len(rows')] =
                    row_from_event(cur'.e, cur'.dom, res'.container, res'.link)
             /\ rows'[Len(rows')].location # ""
             /\ rows'[Len(rows')].ticket_link # NoLink ]_vars
    /\ [](\A i \in 1..Len(rows) :
              rows[i].location = "" =>
                  /\ rows[i].event_link \in series_links
                  /\ rows[i] = series_fallback[rows[i].event_link])

\* On a series page one object was expanded and the last one, which has no
\* venue name, was passed over; the rows hold a fallback with an empty location.
C13_Witness ==
    /\ pc = "series_soup"
    /\ found
    /\ cur.e.location = ""
    /\ cur.e.offers_url # NoLink
    /\ \E i \in 1..Len(rows) : rows[i].location = ""

(* C14: the session is open from the start and throughout both loops;     *)
(* whatever renders failed, once the run is over the context and the       *)
(* browser have been closed, and phase 2 was finished when they were; the  *)
(* session changes only by the two close calls, after the series loop is   *)
(* exhausted; every navigation is made on the open session and leaves it   *)
(* open, so none follows the close.                                        *)
C14_SessionClosedOnceAfterPhase2 ==
    /\ [](InPhase1 \/ InPhase2 => session = "open")
    /\ [](pc \in {"return", "done", "raised"} => (session = "closed" /\ todo = {}))
    /\ [][session' # session =>
            /\ todo = {}
            /\ \/ pc = "series" /\ session = "open" /\ session' = "context_closed"
               \/ pc = "closing" /\ session = "context_closed" /\ session' = "closed"
          ]_vars
    /\ [][Navigates => (session = "open" /\ session' = "open")]_vars

(* C15: the links with a cached fallback are always exactly seriesLinks;   *)
(* every pass of the series loop adds at least one record: the fallback    *)
(* when the render fails, and when the soup of a rendered page is          *)
(* exhausted either something was found, and then a record was appended    *)
(* from the page, or the fallback is appended; so when phase 2 is over     *)
(* every link of seriesLinks has been navigated and the rows are at least  *)
(* as many as the links seen in phase 1.                                   *)
C15_NoSeriesLost ==
    /\ [](DOMAIN series_fallback = series_links)
    /\ [][ /\ (pc = "series" /\ pc' = "series" /\ Navigates) =>
                  /\ Len(rows') = Len(rows) + 1
                  /\ rows'[Len(rows')].event_link = NewGoto.url
           /\ (pc = "series_soup" /\ pc' = "series_soup") =>
                  /\ Len(rows') >= Len(rows)
                  /\ (found' /\ ~found) => Len(rows') = Len(rows) + 1
           /\ (pc = "series_soup" /\ pc' = "series") =>
                  \/ found /\ rows' = rows
                  \/ /\ Len(rows') = Len(rows) + 1
                     /\ rows'[Len(rows')].event_link = series_url ]_vars
    /\ [](pc \in {"return", "done"} =>
            /\ \A l \in series_links : SeriesGotos(l) # {}
            /\ Len(rows) >= Cardinality(seen_event_pages))

\* Phase 2 is over for two series links: the page of one failed to render,
\* the page of the other rendered and its last qualifying object resolved to
\* the series URL itself or to nothing; both fallbacks are in the rows.
C15_Witness ==
    /\ pc = "return"
    /\ Cardinality(series_links) = 2
    /\ \E i \in 1..Len(gotos) : gotos[i].kind = "series" /\ ~gotos[i].ok
    /\ LastGoto.kind = "series" /\ LastGoto.ok
    /\ ~found
    /\ Qualifies(cur.e)
    /\ res.link \in {series_url, NoLink}
    /\ \A l \in series_links : \E i \in 1..Len(rows) : rows[i] = series_fallback[l]

(* C16: two runs over the same site (the same outcome and the same content *)
(* for every listing page and every series page) return tables that hold   *)
(* the same records, the order of the rows left aside: the surviving       *)
(* record of every key is the same in both.                                *)
C16_AsStated ==
    (pc = "done" /\ world.tables # <<>>) =>
        Range(world.tables[1]) = Range(result.table)

====
